---- MODULE Spec2Model ----
(***************************************************************************)
(* A model of fairlearn's input validation (_input_validation.py) and of   *)
(* the group-fairness metrics of examples/metrics.py.                      *)
(*                                                                         *)
(* The library is stateless: every specification below draws the inputs of *)
(* one call in its initial states and has one action per function called.  *)
(*   SpecMerge     _merge_columns                                          *)
(*   SpecRates     _compute_tpr_fpr (the scan, one step per index)         *)
(*   SpecPartition _get_groups and the drop-by-index partition             *)
(*   SpecMetrics   disparate_impact, statistical_parity, true_pos_diff,    *)
(*                 false_pos_diff                                          *)
(*   SpecValidate  _validate_and_reformat_input                            *)
(* Strings are sequences of one-character strings; arrays are represented  *)
(* by their shapes where only the shape decides the code's path; rates are *)
(* exact rationals <<numerator, denominator>>.                             *)
(***************************************************************************)
EXTENDS Integers, Sequences, FiniteSets, TLC

VARIABLES
    \* _merge_columns
    feature_columns, merged,
    \* _compute_tpr_fpr
    y_true, y_pred, positive_label, i, TP, FP, TN, FN, rates,
    \* the metrics over a prediction table
    data_pred, group_condition, call, ret,
    \* _validate_and_reformat_input
    X, y, expect_y, expect_sensitive_features, enforce_binary_labels,
    sensitive_features, control_features, result

mergeVars == <<feature_columns, merged>>
rateVars == <<y_true, y_pred, positive_label, i, TP, FP, TN, FN, rates>>
tableVars == <<data_pred, group_condition, call, ret>>
validVars == <<X, y, expect_y, expect_sensitive_features, enforce_binary_labels,
               sensitive_features, control_features, result>>
vars == <<mergeVars, rateVars, tableVars, validVars>>

\* The value of a variable that the specification at hand does not use.
Unused == "unused"

MergeIdle == feature_columns = Unused /\ merged = Unused
RatesIdle ==
    /\ y_true = Unused /\ y_pred = Unused /\ positive_label = Unused
    /\ i = Unused /\ TP = Unused /\ FP = Unused /\ TN = Unused /\ FN = Unused
    /\ rates = Unused
TableIdle ==
    data_pred = Unused /\ group_condition = Unused /\ call = Unused /\ ret = Unused
ValidIdle ==
    /\ X = Unused /\ y = Unused /\ expect_y = Unused
    /\ expect_sensitive_features = Unused /\ enforce_binary_labels = Unused
    /\ sensitive_features = Unused /\ control_features = Unused
    /\ result = Unused

\* What a call gives back: a value, or the exception it raises.
Ok(v) == [kind |-> "ok", val |-> v]
Raise(exc, msg) == [kind |-> "raise", exc |-> exc, msg |-> msg]

RECURSIVE SeqsUpTo(_, _)
\* All sequences over S of length at most n.
SeqsUpTo(S, n) ==
    IF n = 0 THEN {<<>>}
    ELSE LET shorter == SeqsUpTo(S, n - 1)
         IN  shorter \cup {Append(s, x) : s \in {t \in shorter : Len(t) = n - 1}, x \in S}

(***************************************************************************)
(* _merge_columns                                                          *)
(***************************************************************************)

\* Bounds: the columns of the array, and the characters of one row.
MaxCols == 2
MaxChars == 2

_MERGE_COLUMN_SEPARATOR == ","
Backslash == "\\"
\* The characters of a cell: an ordinary one, the separator, the backslash.
Alphabet == {"a", _MERGE_COLUMN_SEPARATOR, Backslash}

RECURSIVE Replace(_, _, _)
\* str.replace(old, new) for a one-character old: every occurrence, left to right.
Replace(s, old, new) ==
    IF s = <<>> THEN <<>>
    ELSE (IF Head(s) = old THEN new ELSE <<Head(s)>>) \o Replace(Tail(s), old, new)

\* EscapeName without its first replace: the backslash is left as it is.
EscapeNameNoBackslash(name) ==
    Replace(name, _MERGE_COLUMN_SEPARATOR, <<Backslash, _MERGE_COLUMN_SEPARATOR>>)

\* name.replace("\\", "\\\\").replace(",", "\\,")
EscapeName(name) ==
    Replace(Replace(name, Backslash, <<Backslash, Backslash>>),
            _MERGE_COLUMN_SEPARATOR, <<Backslash, _MERGE_COLUMN_SEPARATOR>>)

RECURSIVE Join(_, _)
\* sep.join(parts)
Join(sep, parts) ==
    IF parts = <<>> THEN <<>>
    ELSE IF Len(parts) = 1 THEN parts[1]
    ELSE parts[1] \o <<sep>> \o Join(sep, Tail(parts))

\* _join_names: the escaped names joined by the separator.
_join_names(names) ==
    Join(_MERGE_COLUMN_SEPARATOR, [k \in 1..Len(names) |-> EscapeName(names[k])])

\* astype(str) of a cell that is a string already.
AsStr(cell) == cell

\* _merge_columns: one merged key per row of the array.
_merge_columns(columns) ==
    [r \in 1..Len(columns) |->
        _join_names([k \in 1..Len(columns[r]) |-> AsStr(columns[r][k])])]

RECURSIVE SumLen(_)
SumLen(row) == IF row = <<>> THEN 0 ELSE Len(Head(row)) + SumLen(Tail(row))

\* The rows of c string cells with at most MaxChars characters in all.
Rows(c) == {row \in [1..c -> SeqsUpTo(Alphabet, MaxChars)] : SumLen(row) <= MaxChars}

\* A two-row array of 1..MaxCols columns.
InitMerge ==
    /\ \E c \in 1..MaxCols : \E rowA \in Rows(c), rowB \in Rows(c) :
           feature_columns = <<rowA, rowB>>
    /\ merged = <<>>
    /\ RatesIdle /\ TableIdle /\ ValidIdle

MergeColumns ==
    /\ merged = <<>>
    /\ merged' = _merge_columns(feature_columns)
    /\ UNCHANGED <<feature_columns, rateVars, tableVars, validVars>>

NextMerge == MergeColumns
SpecMerge == InitMerge /\ [][NextMerge]_vars

\* The reverse of the merge: split on the separators that no backslash escapes.
RECURSIVE SplitUnescaped(_, _)
SplitUnescaped(key, cur) ==
    IF key = <<>> THEN <<cur>>
    ELSE IF Head(key) = Backslash /\ Len(key) >= 2
         THEN SplitUnescaped(Tail(Tail(key)), cur \o <<key[1], key[2]>>)
    ELSE IF Head(key) = _MERGE_COLUMN_SEPARATOR
         THEN <<cur>> \o SplitUnescaped(Tail(key), <<>>)
    ELSE SplitUnescaped(Tail(key), Append(cur, Head(key)))

RECURSIVE Unescape(_)
\* A backslash stands for the character after it.
Unescape(s) ==
    IF s = <<>> THEN <<>>
    ELSE IF Head(s) = Backslash /\ Len(s) >= 2
         THEN <<s[2]>> \o Unescape(Tail(Tail(s)))
    ELSE <<Head(s)>> \o Unescape(Tail(s))

Unmerge(key) ==
    LET parts == SplitUnescaped(key, <<>>)
    IN  [k \in 1..Len(parts) |-> Unescape(parts[k])]

\* C1: the merged keys of two rows of the array are equal only if the rows are
\* cell-by-cell identical, and splitting a key on its unescaped separators and
\* reversing the escaping gives the row's cells back.
C1_MergeInjective ==
    merged # <<>> =>
        /\ \A r, s \in 1..Len(feature_columns) :
               merged[r] = merged[s] => feature_columns[r] = feature_columns[s]
        /\ \A r \in 1..Len(feature_columns) :
               Unmerge(merged[r]) = feature_columns[r]

\* Two different rows, one with a separator in a cell and one with a backslash,
\* have been merged.
C1_Witness ==
    /\ merged # <<>>
    /\ feature_columns[1] # feature_columns[2]
    /\ Len(feature_columns[1]) = 2
    /\ \E k \in 1..2 : \E p \in 1..Len(feature_columns[1][k]) :
           feature_columns[1][k][p] = _MERGE_COLUMN_SEPARATOR
    /\ \E k \in 1..2 : \E p \in 1..Len(feature_columns[2][k]) :
           feature_columns[2][k][p] = Backslash
    /\ merged[1] # merged[2]

(***************************************************************************)
(* _compute_tpr_fpr                                                        *)
(***************************************************************************)

\* Bound: the length of the label and prediction sequences.
MaxLen == 3

\* A label is an integer or a string of digits; a column has one type.
IntL(n) == [t |-> "int", v |-> n]
StrL(n) == [t |-> "str", v |-> n]
Labels(t) == IF t = "int" THEN {IntL(0), IntL(1), IntL(2)} ELSE {StrL(0), StrL(1)}
PositiveLabels == {IntL(1), IntL(2), StrL(1)}

\* float(x): the number an integer is, or the number a string of digits spells.
Float(x) == [t |-> "float", v |-> x.v]

\* A missing cell.
NaN == [t |-> "nan", v |-> 0]

\* Python's ==: numbers compare by value, strings with strings, a string never
\* equals a number, and NaN equals nothing.
PyEq(a, b) ==
    IF a.t = "nan" \/ b.t = "nan" THEN FALSE
    ELSE IF (a.t = "str") # (b.t = "str") THEN FALSE
    ELSE a.v = b.v

\* The body of the loop: the cell of the confusion matrix index k falls in.
Classify(yt, yp, pos) ==
    IF PyEq(yt, Float(pos))
    THEN (IF PyEq(yt, yp) THEN "TP" ELSE "FN")
    ELSE (IF PyEq(yp, Float(pos)) THEN "FP" ELSE "TN")

\* A rate as an exact fraction; the guarded 0 is 0/1.
Frac(n, d) == <<n, d>>
Num(q) == q[1]
Den(q) == q[2]

\* TprOf with the denominator of the precision, TP + FP.
TprOverPredicted(tp, fn, fp) == IF tp + fn = 0 THEN Frac(0, 1) ELSE Frac(tp, tp + fp)

\* TPR = TP / (TP + FN), 0 when TP + FN == 0
TprOf(tp, fn, fp) == IF tp + fn = 0 THEN Frac(0, 1) ELSE Frac(tp, tp + fn)

\* FPR = FP / (FP + TN), 0 when FP + TN == 0
FprOf(fp, tn) == IF fp + tn = 0 THEN Frac(0, 1) ELSE Frac(fp, fp + tn)

\* The 10-row scenario of the specification.
ExampleTrue == [k \in 1..10 |-> IntL(IF k <= 5 THEN 1 ELSE 0)]
ExamplePred == [k \in 1..10 |-> IntL(IF k \in {1, 2, 8, 9} THEN 1 ELSE 0)]

InitRates ==
    /\ \/ \E tt \in {"int", "str"}, tp \in {"int", "str"} : \E n \in 0..MaxLen :
             /\ y_true \in [1..n -> Labels(tt)]
             /\ y_pred \in [1..n -> Labels(tp)]
             /\ positive_label \in PositiveLabels
       \/ /\ y_true = ExampleTrue
          /\ y_pred = ExamplePred
          /\ positive_label = IntL(1)
    /\ i = 0 /\ TP = 0 /\ FP = 0 /\ TN = 0 /\ FN = 0
    /\ rates = <<>>
    /\ MergeIdle /\ TableIdle /\ ValidIdle

\* One pass of `for i in range(len(y_true))`.
ScanStep ==
    /\ rates = <<>>
    /\ i < Len(y_true)
    /\ LET c == Classify(y_true[i + 1], y_pred[i + 1], positive_label)
       IN  /\ TP' = IF c = "TP" THEN TP + 1 ELSE TP
           /\ FN' = IF c = "FN" THEN FN + 1 ELSE FN
           /\ FP' = IF c = "FP" THEN FP + 1 ELSE FP
           /\ TN' = IF c = "TN" THEN TN + 1 ELSE TN
    /\ i' = i + 1
    /\ UNCHANGED <<y_true, y_pred, positive_label, rates,
                   mergeVars, tableVars, validVars>>

\* After the loop: return FPR, TPR.
ReturnRates ==
    /\ rates = <<>>
    /\ i = Len(y_true)
    /\ rates' = <<FprOf(FP, TN), TprOf(TP, FN, FP)>>
    /\ UNCHANGED <<y_true, y_pred, positive_label, i, TP, FP, TN, FN,
                   mergeVars, tableVars, validVars>>

NextRates == ScanStep \/ ReturnRates
SpecRates == InitRates /\ [][NextRates]_vars

\* q lies in [0, 1].
InUnit(q) == Den(q) > 0 /\ 0 <= Num(q) /\ Num(q) <= Den(q)

\* C2: the scan puts every index in exactly one of TP, FP, TN, FN, so the four
\* counts add up to the indices scanned and, at the return, to the length; the
\* returned TPR is TP/(TP+FN) and FPR is FP/(FP+TN), each in [0,1] and 0 when
\* its denominator is 0; the 10-row scenario gives TP=2, FN=3, FP=2, TN=3 and
\* TPR = FPR = 0.4.
C2_ConfusionRates ==
    /\ TP + FP + TN + FN = i
    /\ TP >= 0 /\ FP >= 0 /\ TN >= 0 /\ FN >= 0
    /\ rates # <<>> =>
        LET FPR == rates[1]
            TPR == rates[2]
        IN  /\ TP + FP + TN + FN = Len(y_true)
            /\ InUnit(TPR) /\ InUnit(FPR)
            /\ TP + FN = 0 => Num(TPR) = 0
            /\ FP + TN = 0 => Num(FPR) = 0
            /\ TP + FN > 0 => Num(TPR) * (TP + FN) = TP * Den(TPR)
            /\ FP + TN > 0 => Num(FPR) * (FP + TN) = FP * Den(FPR)
            /\ (y_true = ExampleTrue /\ y_pred = ExamplePred) =>
                   /\ TP = 2 /\ FN = 3 /\ FP = 2 /\ TN = 3
                   /\ Num(TPR) * 10 = 4 * Den(TPR)
                   /\ Num(FPR) * 10 = 4 * Den(FPR)

\* The scan of the 10-row scenario, which has all four kinds of index, has
\* returned.
C2_Witness ==
    /\ rates # <<>>
    /\ y_true = ExampleTrue /\ y_pred = ExamplePred
    /\ TP = 2 /\ FN = 3 /\ FP = 2 /\ TN = 3

(***************************************************************************)
(* The prediction table and its two groups                                 *)
(***************************************************************************)

\* Bound: the rows of the prediction table.
MaxRows == 3

\* A table is a sequence of rows; a row has its index label and its cells. A
\* frame taken out of the table is the set of the positions of its rows.
IndexLabels == {0, 1}
Attrs == {IntL(0), IntL(1), NaN}
Binary == {IntL(0), IntL(1)}

\* query: the rows on which every key of the condition equals its value.
Query(data, cond) ==
    {p \in 1..Len(data) : \A k \in DOMAIN cond : PyEq(data[p][k], cond[k])}

\* "~(" + query + ")": the rows on which the conjunction is false.
QueryNot(data, cond) ==
    {p \in 1..Len(data) : ~(\A k \in DOMAIN cond : PyEq(data[p][k], cond[k]))}

\* frame.query(label_name + "==" + str(positive_label))
LabelQuery(data, frame, label_name, pos) ==
    {p \in frame : PyEq(data[p][label_name], pos)}

\* _get_groups
_get_groups(data, label_name, pos, cond) ==
    <<Query(data, cond),
      LabelQuery(data, Query(data, cond), label_name, pos),
      QueryNot(data, cond),
      LabelQuery(data, QueryNot(data, cond), label_name, pos)>>

\* frame.index: the index labels of the rows of a frame.
IndexOf(data, frame) == {data[p].idx : p \in frame}

\* data.drop(labels): the rows whose index label is none of the labels.
Drop(data, labels) == {p \in 1..Len(data) : data[p].idx \notin labels}

RECURSIVE SetToSeq(_)
\* The positions of a frame in the order of the table.
SetToSeq(S) ==
    IF S = {} THEN <<>>
    ELSE LET m == CHOOSE x \in S : \A z \in S : x <= z
         IN  <<m>> \o SetToSeq(S \ {m})

\* frame[column].values.ravel()
Column(data, frame, column) ==
    LET ps == SetToSeq(frame) IN [k \in 1..Len(ps) |-> data[ps[k]][column]]

\* The number of indices that the loop of _compute_tpr_fpr puts in cell c.
CountCell(yt, yp, pos, c) ==
    Cardinality({k \in 1..Len(yt) : Classify(yt[k], yp[k], pos) = c})

\* _compute_tpr_fpr as a function of its arguments: (FPR, TPR).
_compute_tpr_fpr(yt, yp, pos) ==
    LET tp == CountCell(yt, yp, pos, "TP")
        fn == CountCell(yt, yp, pos, "FN")
        fp == CountCell(yt, yp, pos, "FP")
        tn == CountCell(yt, yp, pos, "TN")
    IN  <<FprOf(fp, tn), TprOf(tp, fn, fp)>>

\* _compute_tpr_fpr_groups, with the two groups it computes on the way.
_compute_tpr_fpr_groups(data, label, cond, pos, label_name) ==
    LET unpriv_group == Query(data, cond)
        priv_group == Drop(data, IndexOf(data, unpriv_group))
        u == _compute_tpr_fpr(Column(data, unpriv_group, label_name),
                              Column(data, unpriv_group, label), pos)
        q == _compute_tpr_fpr(Column(data, priv_group, label_name),
                              Column(data, priv_group, label), pos)
    IN  [unpriv_group |-> unpriv_group, priv_group |-> priv_group,
         fpr_unpriv |-> u[1], tpr_unpriv |-> u[2],
         fpr_priv |-> q[1], tpr_priv |-> q[2]]

\* The tables of at most MaxRows rows with the given cells per column.
Tables(idxs, attrs, trues, labels) ==
    UNION {[1..n -> [idx : idxs, a : attrs, y_true : trues, label : labels]] :
           n \in 0..MaxRows}

Conditions == {[a |-> v] : v \in Binary}

\* Tables whose index labels may repeat, as after a concatenation.
InitPartition ==
    /\ data_pred \in Tables(IndexLabels, Attrs, {IntL(1)}, Binary)
    /\ group_condition \in Conditions
    /\ call = "none" /\ ret = Ok(<<>>)
    /\ positive_label = IntL(1)
    /\ y_true = Unused /\ y_pred = Unused
    /\ i = Unused /\ TP = Unused /\ FP = Unused /\ TN = Unused /\ FN = Unused
    /\ rates = Unused
    /\ MergeIdle /\ ValidIdle

UnchangedButRet ==
    UNCHANGED <<data_pred, group_condition, mergeVars, rateVars, validVars>>

GetGroups ==
    /\ call = "none"
    /\ call' = "_get_groups"
    /\ ret' = Ok(_get_groups(data_pred, "label", positive_label, group_condition))
    /\ UnchangedButRet

TprFprGroups ==
    /\ call = "none"
    /\ call' = "_compute_tpr_fpr_groups"
    /\ ret' = Ok(_compute_tpr_fpr_groups(data_pred, "label", group_condition,
                                         positive_label, "y_true"))
    /\ UnchangedButRet

NextPartition == GetGroups \/ TprFprGroups
SpecPartition == InitPartition /\ [][NextPartition]_vars

\* unpriv and priv are disjoint and hold every row of the table between them.
IsPartition(data, unpriv, priv) ==
    /\ unpriv \cap priv = {}
    /\ unpriv \cup priv = 1..Len(data)

\* C3: the two groups are disjoint and together hold every row of the table
\* exactly once, in the negated-predicate form of _get_groups and in the
\* drop-by-index form of _compute_tpr_fpr_groups, also when condition cells are
\* missing and when index labels repeat.
C3_PartitionComplete ==
    /\ call = "_get_groups" => IsPartition(data_pred, ret.val[1], ret.val[3])
    /\ call = "_compute_tpr_fpr_groups" =>
           IsPartition(data_pred, ret.val.unpriv_group, ret.val.priv_group)

(***************************************************************************)
(* disparate_impact, statistical_parity, true_pos_diff, false_pos_diff     *)
(***************************************************************************)

\* Exact arithmetic on fractions with positive denominators.
RatDiv(p, q) ==
    IF Num(q) > 0 THEN Frac(Num(p) * Den(q), Den(p) * Num(q))
    ELSE Frac(0 - Num(p) * Den(q), 0 - Den(p) * Num(q))
RatSub(p, q) == Frac(Num(p) * Den(q) - Num(q) * Den(p), Den(p) * Den(q))
RatLe(p, q) == Num(p) * Den(q) <= Num(q) * Den(p)
RatEq(p, q) == Num(p) * Den(q) = Num(q) * Den(p)
RatMin(p, q) == IF RatLe(q, p) /\ ~RatEq(p, q) THEN q ELSE p
Zero == Frac(0, 1)
One == Frac(1, 1)

\* len(pos) / len(group): Python's true division raises on a zero divisor.
TrueDiv(n, d) == IF d = 0 THEN Raise("ZeroDivisionError", "division by zero")
                 ELSE Ok(Frac(n, d))

\* _compute_probs: the two positive-outcome rates, or the exception of the
\* first division that fails.
_compute_probs(data, label_name, pos, cond) ==
    LET g == _get_groups(data, label_name, pos, cond)
        unpriv_group_prob == TrueDiv(Cardinality(g[2]), Cardinality(g[1]))
        priv_group_prob == TrueDiv(Cardinality(g[4]), Cardinality(g[3]))
    IN  IF unpriv_group_prob.kind = "raise" THEN unpriv_group_prob
        ELSE IF priv_group_prob.kind = "raise" THEN priv_group_prob
        ELSE Ok(<<unpriv_group_prob.val, priv_group_prob.val>>)

\* ImpactOf without the min: the plain ratio Pu/Pp.
ImpactRatioOnly(pu, pp) ==
    IF Num(pu) # 0 /\ Num(pp) # 0 THEN RatDiv(pu, pp) ELSE Zero

\* The return expression of disparate_impact.
ImpactOf(pu, pp) ==
    IF Num(pu) # 0 /\ Num(pp) # 0
    THEN RatMin(RatDiv(pu, pp), RatDiv(pp, pu))
    ELSE Zero

\* disparate_impact
disparate_impact(data, cond, label_name, pos) ==
    LET probs == _compute_probs(data, label_name, pos, cond)
    IN  IF probs.kind = "raise" THEN probs
        ELSE Ok(ImpactOf(probs.val[1], probs.val[2]))

\* statistical_parity
statistical_parity(data, cond, label_name, pos) ==
    LET unpriv_group_prob ==
            TrueDiv(Cardinality(LabelQuery(data, Query(data, cond), label_name, pos)),
                    Cardinality(Query(data, cond)))
        priv_group_prob ==
            TrueDiv(Cardinality(LabelQuery(data, QueryNot(data, cond), label_name, pos)),
                    Cardinality(QueryNot(data, cond)))
    IN  IF unpriv_group_prob.kind = "raise" THEN unpriv_group_prob
        ELSE IF priv_group_prob.kind = "raise" THEN priv_group_prob
        ELSE Ok(RatSub(unpriv_group_prob.val, priv_group_prob.val))

\* A call of _compute_tpr_fpr_groups with the positional arguments args: the
\* function has five required parameters and no defaults.
CallTprFprGroups(args) ==
    IF Len(args) # 5
    THEN Raise("TypeError", "missing 1 required positional argument: 'label_name'")
    ELSE Ok(_compute_tpr_fpr_groups(args[1], args[2], args[3], args[4], args[5]))

\* true_pos_diff
true_pos_diff(data, cond, label, pos) ==
    LET r == CallTprFprGroups(<<data, label, cond, pos>>)
    IN  IF r.kind = "raise" THEN r
        ELSE Ok(RatSub(r.val.fpr_unpriv, r.val.fpr_priv))

\* false_pos_diff
false_pos_diff(data, cond, label, pos) ==
    LET r == CallTprFprGroups(<<data, label, cond, pos>>)
    IN  IF r.kind = "raise" THEN r
        ELSE Ok(RatSub(r.val.fpr_unpriv, r.val.fpr_priv))

\* Tables with the default RangeIndex: the label of a row is its position.
InitMetrics ==
    /\ \E t \in Tables({0}, Attrs, Binary, Binary) :
           data_pred = [p \in 1..Len(t) |-> [t[p] EXCEPT !.idx = p - 1]]
    /\ group_condition \in Conditions
    /\ call = "none" /\ ret = Ok(<<>>)
    /\ positive_label = IntL(1)
    /\ y_true = Unused /\ y_pred = Unused
    /\ i = Unused /\ TP = Unused /\ FP = Unused /\ TN = Unused /\ FN = Unused
    /\ rates = Unused
    /\ MergeIdle /\ ValidIdle

DisparateImpact ==
    /\ call = "none"
    /\ call' = "disparate_impact"
    /\ ret' = disparate_impact(data_pred, group_condition, "label", positive_label)
    /\ UnchangedButRet

StatisticalParity ==
    /\ call = "none"
    /\ call' = "statistical_parity"
    /\ ret' = statistical_parity(data_pred, group_condition, "label", positive_label)
    /\ UnchangedButRet

TruePosDiff ==
    /\ call = "none"
    /\ call' = "true_pos_diff"
    /\ ret' = true_pos_diff(data_pred, group_condition, "label", positive_label)
    /\ UnchangedButRet

FalsePosDiff ==
    /\ call = "none"
    /\ call' = "false_pos_diff"
    /\ ret' = false_pos_diff(data_pred, group_condition, "label", positive_label)
    /\ UnchangedButRet

NextMetrics == DisparateImpact \/ StatisticalParity \/ TruePosDiff \/ FalsePosDiff
SpecMetrics == InitMetrics /\ [][NextMetrics]_vars

\* The rows the condition selects, and the rest of the table.
Unpriv == Query(data_pred, group_condition)
Priv == (1..Len(data_pred)) \ Unpriv
\* The positive-outcome rate of a non-empty group, counted row by row.
RateOf(group) ==
    Frac(Cardinality({p \in group : data_pred[p].label = positive_label}),
         Cardinality(group))

\* C4: when the condition selects no row, or every row, disparate_impact and
\* statistical_parity return 0 and do not raise.
C4_EmptyGroupGivesZero ==
    (call \in {"disparate_impact", "statistical_parity"}
        /\ (Unpriv = {} \/ Priv = {})) =>
        /\ ret.kind = "ok"
        /\ Num(ret.val) = 0

\* C8: true_pos_diff and false_pos_diff each return FPRu - FPRp, the
\* false-positive rate of the unprivileged group minus that of the
\* privileged group (the true labels being the column y_true).
C8_PosDiffIsFprGap ==
    call \in {"true_pos_diff", "false_pos_diff"} =>
        LET g == _compute_tpr_fpr_groups(data_pred, "label", group_condition,
                                         positive_label, "y_true")
        IN  /\ ret.kind = "ok"
            /\ RatEq(ret.val, RatSub(g.fpr_unpriv, g.fpr_priv))

\* C9: disparate_impact is min(Pu/Pp, Pp/Pu) of the two positive-outcome
\* rates, the same with the two rates swapped, in [0,1], and 0 whenever
\* either rate is 0.
C9_ImpactSymmetric ==
    (call = "disparate_impact" /\ Unpriv # {} /\ Priv # {}) =>
        LET Pu == RateOf(Unpriv)
            Pp == RateOf(Priv)
        IN  /\ ret.kind = "ok"
            /\ ret.val = ImpactOf(Pu, Pp)
            /\ RatEq(ret.val, ImpactOf(Pp, Pu))
            /\ InUnit(ret.val)
            /\ (Num(Pu) = 0 \/ Num(Pp) = 0) => Num(ret.val) = 0
            /\ (Num(Pu) # 0 /\ Num(Pp) # 0) =>
                   \* ret * Pp = Pu when Pu <= Pp, ret * Pu = Pp otherwise
                   IF RatLe(Pu, Pp)
                   THEN Num(ret.val) * Num(Pp) * Den(Pu)
                            = Den(ret.val) * Num(Pu) * Den(Pp)
                   ELSE Num(ret.val) * Num(Pu) * Den(Pp)
                            = Den(ret.val) * Num(Pp) * Den(Pu)

\* disparate_impact has returned for two groups whose rates differ and are
\* both positive.
C9_Witness ==
    /\ call = "disparate_impact"
    /\ ret.kind = "ok"
    /\ Unpriv # {} /\ Priv # {}
    /\ Num(RateOf(Unpriv)) # 0 /\ Num(RateOf(Priv)) # 0
    /\ ~RatEq(RateOf(Unpriv), RateOf(Priv))
    /\ ~RatEq(ret.val, One)

(***************************************************************************)
(* _validate_and_reformat_input                                            *)
(***************************************************************************)

\* Bound: the rows of X, y and the feature arrays.
MaxN == 2

_MESSAGE_Y_NONE == "Must supply nonempty y"
_MESSAGE_Y_SHAPE == "y must be of shape (n,) or (n,1)"
_LABELS_NOT_0_1_ERROR_MESSAGE == "Supplied y labels are not 0 or 1"
_MESSAGE_X_Y_ROWS == "X and y must have same number of rows"
_MESSAGE_SENSITIVE_FEATURES_NONE == "Must specify sensitive_features (for now)"
_MESSAGE_CHECK_ARRAY == "check_array: not a 2D array with at least one row"
_MESSAGE_INCONSISTENT_LENGTH == "Found input variables with inconsistent numbers of samples"
_MESSAGE_NOT_1D == "Data must be 1-dimensional"
_MESSAGE_NO_SHAPE == "'list' object has no attribute 'shape'"

\* An argument is None or array-like: its container and its shape, and for
\* labels whether every value is 0 or 1.
None == [kind |-> "None"]
Array(kind, shape, binary) == [kind |-> kind, shape |-> shape, binary |-> binary]

RECURSIVE Product(_)
\* ndarray.size
Product(shape) == IF shape = <<>> THEN 1 ELSE Head(shape) * Product(Tail(shape))

\* np.asarray(y): an ndarray of the same shape.
AsArray(a) == [a EXCEPT !.kind = "ndarray"]

\* y.reshape(-1)
Flatten(a) == [a EXCEPT !.shape = <<Product(a.shape)>>]

\* check_array: a 2-D array (when ensure_2d) with at least one row and one
\* column comes back as an ndarray of the same shape; anything else raises.
check_array(a, ensure_2d) ==
    IF a.kind = "None" THEN Raise("ValueError", _MESSAGE_CHECK_ARRAY)
    ELSE IF ensure_2d /\ Len(a.shape) # 2 THEN Raise("ValueError", _MESSAGE_CHECK_ARRAY)
    ELSE IF \E d \in 1..Len(a.shape) : a.shape[d] = 0
         THEN Raise("ValueError", _MESSAGE_CHECK_ARRAY)
    ELSE Ok(AsArray(a))

\* check_consistent_length(a, b): the same number of samples.
check_consistent_length(a, b) == a.shape[1] = b.shape[1]

\* The shape of what _merge_columns returns: one key per row.
MergedColumns(a) == [a EXCEPT !.shape = <<a.shape[1]>>]

\* ndarray.squeeze(): the axes of length one are removed.
Squeeze(a) == [a EXCEPT !.shape = SelectSeq(a.shape, LAMBDA d : d # 1)]

\* pd.Series(data): a 0-d array is one value, a 1-D array is its values, and
\* more dimensions raise.
Series(a) ==
    IF Len(a.shape) = 0 THEN Ok([a EXCEPT !.kind = "Series", !.shape = <<1>>])
    ELSE IF Len(a.shape) = 1 THEN Ok([a EXCEPT !.kind = "Series"])
    ELSE Raise("ValueError", _MESSAGE_NOT_1D)

\* pd.Series(dtype="float64")
EmptySeries == Array("Series", <<0>>, TRUE)

\* The `if expect_y:` block: the flattened labels, or the error.
CheckY(yy, enforce) ==
    IF yy.kind = "None" THEN Raise("ValueError", _MESSAGE_Y_NONE)
    ELSE LET a == AsArray(yy)
         IN  IF Product(a.shape) = 0 THEN Raise("ValueError", _MESSAGE_Y_NONE)
             ELSE IF ~(Len(a.shape) = 1 \/ (Len(a.shape) = 2 /\ a.shape[2] = 1))
                  THEN Raise("ValueError", _MESSAGE_Y_SHAPE)
             ELSE IF enforce /\ ~a.binary
                  THEN Raise("ValueError", _LABELS_NOT_0_1_ERROR_MESSAGE)
             ELSE check_array(Flatten(a), FALSE)

\* XyRowsDiffer without the comparison: the rows of X and y are never compared.
XyRowsNotCompared(yy, result_X) == Ok(FALSE)

\* (y is not None) and y.shape[0] != result_X.shape[0]
XyRowsDiffer(yy, result_X) ==
    IF yy.kind = "None" THEN Ok(FALSE)
    ELSE IF yy.kind = "list" THEN Raise("AttributeError", _MESSAGE_NO_SHAPE)
    ELSE Ok(yy.shape[1] # result_X.shape[1])

\* The handling of sensitive_features, and of control_features with
\* expected = FALSE: the Series, None, or the error.
CheckFeatures(XX, f, expected) ==
    IF f.kind # "None"
    THEN IF ~check_consistent_length(XX, f)
         THEN Raise("ValueError", _MESSAGE_INCONSISTENT_LENGTH)
         ELSE LET c == check_array(f, FALSE)
              IN  IF c.kind = "raise" THEN c
                  ELSE LET m == IF Len(c.val.shape) > 1 /\ c.val.shape[2] > 1
                                THEN MergedColumns(c.val) ELSE c.val
                       IN  Series(Squeeze(m))
    ELSE IF expected THEN Raise("ValueError", _MESSAGE_SENSITIVE_FEATURES_NONE)
    ELSE Ok(None)

\* _validate_and_reformat_input
_validate_and_reformat_input(XX, yy, ey, es, enforce, sf, cf) ==
    LET y1 == IF ey THEN CheckY(yy, enforce) ELSE Ok(yy)
    IN  IF y1.kind = "raise" THEN y1
        ELSE
        LET rX == check_array(XX, TRUE)
        IN  IF rX.kind = "raise" THEN rX
            ELSE
            LET result_X == [rX.val EXCEPT !.kind = XX.kind]
                differ == XyRowsDiffer(y1.val, result_X)
            IN  IF differ.kind = "raise" THEN differ
                ELSE IF differ.val THEN Raise("ValueError", _MESSAGE_X_Y_ROWS)
                ELSE
                LET s == CheckFeatures(XX, sf, es)
                IN  IF s.kind = "raise" THEN s
                    ELSE
                    LET c == CheckFeatures(XX, cf, FALSE)
                    IN  IF c.kind = "raise" THEN c
                        ELSE
                        LET result_y == IF y1.val.kind # "None" THEN Series(y1.val)
                                        ELSE Ok(EmptySeries)
                        IN  IF result_y.kind = "raise" THEN result_y
                            ELSE Ok([X |-> result_X, y |-> result_y.val,
                                     sensitive_features |-> s.val,
                                     control_features |-> c.val])

\* The shapes (n,), (n,1) and (n,2) of n rows.
Shapes(n) == {<<n>>, <<n, 1>>, <<n, 2>>}

XInputs ==
    {None, Array("ndarray", <<0, 1>>, TRUE)}
    \cup {Array(k, <<n, 1>>, TRUE) : k \in {"ndarray", "DataFrame"}, n \in 1..MaxN}
YInputs ==
    {None}
    \cup {Array(k, <<0>>, TRUE) : k \in {"list", "ndarray"}}
    \cup {Array(k, sh, b) : k \in {"list", "ndarray"},
                            sh \in UNION {Shapes(n) : n \in 1..MaxN},
                            b \in BOOLEAN}
FeatureInputs ==
    {None} \cup {Array("ndarray", sh, TRUE) : sh \in UNION {Shapes(n) : n \in 1..MaxN}}

InitValidate ==
    /\ X \in XInputs
    /\ y \in YInputs
    /\ expect_y \in BOOLEAN
    /\ expect_sensitive_features \in BOOLEAN
    /\ enforce_binary_labels \in BOOLEAN
    /\ sensitive_features \in FeatureInputs
    /\ control_features \in FeatureInputs
    /\ result = Ok(<<>>)
    /\ MergeIdle /\ RatesIdle /\ TableIdle

Validate ==
    /\ result = Ok(<<>>)
    /\ result' = _validate_and_reformat_input(X, y, expect_y, expect_sensitive_features,
                     enforce_binary_labels, sensitive_features, control_features)
    /\ UNCHANGED <<X, y, expect_y, expect_sensitive_features, enforce_binary_labels,
                   sensitive_features, control_features,
                   mergeVars, rateVars, tableVars>>

NextValidate == Validate
SpecValidate == InitValidate /\ [][NextValidate]_vars

Returned == result # Ok(<<>>) /\ result.kind = "ok"
Raised == result.kind = "raise"
RaisedInvalid(msgs) ==
    result.kind = "raise" /\ result.exc = "ValueError" /\ result.msg \in msgs
AnyMessage ==
    {_MESSAGE_Y_NONE, _MESSAGE_Y_SHAPE, _LABELS_NOT_0_1_ERROR_MESSAGE,
     _MESSAGE_X_Y_ROWS, _MESSAGE_SENSITIVE_FEATURES_NONE, _MESSAGE_CHECK_ARRAY,
     _MESSAGE_INCONSISTENT_LENGTH, _MESSAGE_NOT_1D}

\* C5: whenever the call returns, every component of the tuple that is present
\* (y when a y was passed, sensitive_features, control_features) is a Series
\* with as many rows as X, whatever the flags; otherwise the call raises.
C5_SameRowCount ==
    result # Ok(<<>>) =>
        /\ Returned \/ Raised
        /\ Returned =>
            LET n == result.val.X.shape[1]
            IN  /\ n = X.shape[1]
                /\ y # None => result.val.y.shape = <<n>>
                /\ sensitive_features # None =>
                       result.val.sensitive_features.shape = <<n>>
                /\ sensitive_features = None => result.val.sensitive_features = None
                /\ control_features # None =>
                       result.val.control_features.shape = <<n>>
                /\ control_features = None => result.val.control_features = None

\* The call has returned for a single-row input with a two-column
\* sensitive_features (merged) and an (n,1) control_features (squeezed).
C5_Witness ==
    /\ Returned
    /\ X.shape = <<1, 1>>
    /\ y # None /\ y.shape = <<1, 1>>
    /\ sensitive_features # None /\ sensitive_features.shape = <<1, 2>>
    /\ control_features # None /\ control_features.shape = <<1, 1>>

\* C6: the call raises an invalid-input error (ValueError) when y is 2-D with
\* more than one column and expect_y is true, and when sensitive_features or
\* control_features has a row count different from X.
C6_ShapeRejection ==
    result # Ok(<<>>) =>
        /\ (expect_y /\ y # None /\ Len(y.shape) = 2 /\ y.shape[2] > 1)
               => RaisedInvalid(AnyMessage)
        /\ (X # None /\ sensitive_features # None
                /\ sensitive_features.shape[1] # X.shape[1])
               => RaisedInvalid(AnyMessage)
        /\ (X # None /\ control_features # None
                /\ control_features.shape[1] # X.shape[1])
               => RaisedInvalid(AnyMessage)

\* C7: the returned y is a 1-D Series: the flattened input y when expect_y is
\* true, and the empty float64 Series when expect_y is false, whatever was
\* passed for y.
C7_OutputY ==
    Returned =>
        /\ result.val.y.kind = "Series"
        /\ Len(result.val.y.shape) = 1
        /\ expect_y => result.val.y = [Flatten(y) EXCEPT !.kind = "Series"]
        /\ ~expect_y => result.val.y = EmptySeries

\* The rules of the validator in their order, each with the error of its
\* violation ("" when the input obeys it).
Rule1 ==
    IF ~expect_y THEN ""
    ELSE IF y = None \/ Product(y.shape) = 0 THEN _MESSAGE_Y_NONE
    ELSE IF Len(y.shape) = 2 /\ y.shape[2] # 1 THEN _MESSAGE_Y_SHAPE
    ELSE IF enforce_binary_labels /\ ~y.binary THEN _LABELS_NOT_0_1_ERROR_MESSAGE
    ELSE ""
Rule2 == IF X = None \/ X.shape[1] = 0 THEN _MESSAGE_CHECK_ARRAY ELSE ""
Rule3 ==
    IF y # None /\ (IF expect_y THEN Product(y.shape) ELSE y.shape[1]) # X.shape[1]
    THEN _MESSAGE_X_Y_ROWS ELSE ""
Rule4 ==
    IF sensitive_features # None
    THEN (IF sensitive_features.shape[1] # X.shape[1]
          THEN _MESSAGE_INCONSISTENT_LENGTH ELSE "")
    ELSE IF expect_sensitive_features THEN _MESSAGE_SENSITIVE_FEATURES_NONE
    ELSE ""
Rule5 ==
    IF control_features # None /\ control_features.shape[1] # X.shape[1]
    THEN _MESSAGE_INCONSISTENT_LENGTH ELSE ""
EarliestViolation ==
    IF Rule1 # "" THEN Rule1
    ELSE IF Rule2 # "" THEN Rule2
    ELSE IF Rule3 # "" THEN Rule3
    ELSE IF Rule4 # "" THEN Rule4
    ELSE Rule5

\* C10: the rules are applied in the order y (when expect_y), X, X/y rows,
\* sensitive_features, control_features, and the error raised is that of the
\* earliest rule the input violates; an input that violates none, a missing
\* control_features included, does not fail.
C10_RuleOrder ==
    result # Ok(<<>>) =>
        /\ EarliestViolation # "" => RaisedInvalid({EarliestViolation})
        /\ (EarliestViolation = "" /\ control_features = None) => Returned

====
